---------------------------- MODULE Spec2Model ----------------------------
(***************************************************************************)
(* Model of src/app.py (video summary web tool): the run of main() as a    *)
(* state machine over its stages, with generate_summary and                *)
(* format_markdown computed as the code computes them.                     *)
(*                                                                         *)
(* Text is a sequence of characters; a character is a string naming one    *)
(* code point ("a", " ", "\n", "U3002" for the Chinese full stop and       *)
(* "U2022" for the bullet).  A seconds value of a transcript segment is    *)
(* kept in tenths of a second, so that the fractional part the code floors *)
(* away is present in the model.                                           *)
(***************************************************************************)
EXTENDS Integers, Sequences, FiniteSets, TLC

VARIABLES
    ALLOW_AI_SUMMARY,  \* module flag, src/app.py:13
    pc,                \* position of main() in the current run
    start_btn,         \* st.button result
    video_url,         \* st.text_input result (text)
    openai_key,        \* API key as main() holds it (text)
    video_path,        \* "unbound" | "None" | "path"
    video_info,        \* <<>> (unbound/None) or <<record>>
    temp_dir,          \* main's local: "unbound" | "None" | "handle"
    audio_path,        \* "unbound" | "None" | "path"
    transcript,        \* <<>> or <<[text, segments]>>
    summary,           \* <<>> or <<[summary, key_points, type]>>
    md_content,        \* <<>> or <<sequence of report lines>>
    tempDirOnDisk,     \* "none" | "exists" | "removed": the directory of line 18
    messages,          \* st.error / st.info / st.success / st.warning shown, in order
    stages,            \* stages invoked in this run, in order
    failed,            \* stage that failed in this run, or "none"
    aiCall,            \* "none", or the outcome of the AI attempt of this run
    aiText,            \* <<>> or <<text>>: the text the completion call returned
    offered            \* st.download_button reached

vars == <<ALLOW_AI_SUMMARY, pc, start_btn, video_url, openai_key, video_path,
          video_info, temp_dir, audio_path, transcript, summary, md_content,
          tempDirOnDisk, messages, stages, failed, aiCall, aiText, offered>>

-----------------------------------------------------------------------------
(* Bounds of the model *)

\* largest number of sentences of a generated transcript
MaxSent == 12
\* largest number of transcript segments
MaxSeg == 4
\* largest number of lines of a generated completion text
MaxLines == 4

-----------------------------------------------------------------------------
(* Characters and Python string operations *)

FullStop == "U3002"
Bullet == "U2022"
Whitespace == {" ", "\n", "\t"}

Min(a, b) == IF a <= b THEN a ELSE b
Max(a, b) == IF a >= b THEN a ELSE b

\* s[:n]
Take(s, n) == SubSeq(s, 1, Min(n, Len(s)))
\* variant: the slice starts one element early
LastN_OffByOne(s, n) == SubSeq(s, Max(1, Len(s) - n), Len(s))
\* s[-n:]
LastN(s, n) == SubSeq(s, Max(1, Len(s) - n + 1), Len(s))

\* s.startswith(p)
StartsWith(s, p) == Len(s) >= Len(p) /\ SubSeq(s, 1, Len(p)) = p

\* s.lstrip(chars)
RECURSIVE LStripChars(_, _)
LStripChars(s, chars) ==
    IF s # <<>> /\ Head(s) \in chars THEN LStripChars(Tail(s), chars) ELSE s

\* s.rstrip(chars)
RECURSIVE RStripChars(_, _)
RStripChars(s, chars) ==
    IF s # <<>> /\ s[Len(s)] \in chars
    THEN RStripChars(SubSeq(s, 1, Len(s) - 1), chars)
    ELSE s

\* s.strip()
Strip(s) == RStripChars(LStripChars(s, Whitespace), Whitespace)

\* s.split(sep) for a one-character separator
RECURSIVE Split(_, _)
Split(s, sep) ==
    IF \A i \in 1..Len(s) : s[i] # sep
    THEN <<s>>
    ELSE LET k == CHOOSE i \in 1..Len(s) :
                      s[i] = sep /\ \A j \in 1..(i - 1) : s[j] # sep
         IN  <<SubSeq(s, 1, k - 1)>> \o Split(SubSeq(s, k + 1, Len(s)), sep)

\* sep.join(parts)
RECURSIVE Join(_, _)
Join(parts, sep) ==
    IF parts = <<>> THEN <<>>
    ELSE IF Len(parts) = 1 THEN parts[1]
    ELSE parts[1] \o sep \o Join(Tail(parts), sep)

\* [f(x) for x in s]
StripAll(parts) == [i \in 1..Len(parts) |-> Strip(parts[i])]

NonEmpty(s) == s # <<>>

\* decimal digits of a natural number, as str(n) gives them
DigitChars == <<"0", "1", "2", "3", "4", "5", "6", "7", "8", "9">>
RECURSIVE Digits(_)
Digits(n) ==
    IF n < 10 THEN <<DigitChars[n + 1]>>
    ELSE Digits(n \div 10) \o <<DigitChars[(n % 10) + 1]>>

\* f"{n:02d}" for n >= 0
Fmt02d(n) == IF n < 10 THEN <<"0">> \o Digits(n) ELSE Digits(n)


-----------------------------------------------------------------------------
(* Program constants *)

\* variant: len(sentences) < 10
SentenceThreshold_OffByOne == 10 - 1
\* len(sentences) <= 10
SentenceThreshold == 10
\* sentences[:5]
HeadCount == 5
\* sentences[-3:]
TailCount == 3
\* ai_key_points[:3]
AIKeyPointCount == 3
\* transcript["segments"][:3]
TimelineCount == 3
\* seg['text'][:50]
SegTextCut == 50

\* summary["type"] of the extractive path and of the AI path (the code's labels
\* are Chinese text; the model names them as the specification does)
ExtractiveType == "extractive"
AIType == "ai-enhanced"

-----------------------------------------------------------------------------
(* generate_summary *)

\* [s.strip() for s in transcript_text.split(FullStop) if s.strip()]
Sentences(transcript_text) ==
    SelectSeq(StripAll(Split(transcript_text, FullStop)), NonEmpty)

\* variant: the trailing full stop is only added to a non-empty join
BaseSummary_NoTrailingStop(transcript_text) ==
    LET sentences == Sentences(transcript_text)
        chosen == IF Len(sentences) <= SentenceThreshold
                  THEN sentences
                  ELSE Take(sentences, HeadCount) \o LastN(sentences, TailCount)
    IN  [summary    |-> IF chosen = <<>> THEN <<>>
                        ELSE Join(chosen, <<FullStop>>) \o <<FullStop>>,
         key_points |-> Take(sentences, HeadCount),
         type       |-> ExtractiveType]

\* the extractive summary, base_summary
BaseSummary(transcript_text) ==
    LET sentences == Sentences(transcript_text)
    IN  IF Len(sentences) <= SentenceThreshold
        THEN [summary    |-> Join(sentences, <<FullStop>>) \o <<FullStop>>,
              key_points |-> Take(sentences, HeadCount),
              type       |-> ExtractiveType]
        ELSE [summary    |-> Join(Take(sentences, HeadCount)
                                    \o LastN(sentences, TailCount),
                                  <<FullStop>>) \o <<FullStop>>,
              key_points |-> Take(sentences, HeadCount),
              type       |-> ExtractiveType]

\* variant: if ALLOW_AI_SUMMARY
AIPathEnabled_FlagOnly(flag, key) == flag
\* if ALLOW_AI_SUMMARY and openai_key
AIPathEnabled(flag, key) == flag /\ key # <<>>

\* line.startswith(("1.", "2.", "3.", bullet, "-"))
KeyPointMarkers ==
    {<<"1", ".">>, <<"2", ".">>, <<"3", ".">>, <<Bullet>>, <<"-">>}
IsKeyPointLine(line) == \E m \in KeyPointMarkers : StartsWith(line, m)

\* line.lstrip("123.<bullet>- ").strip()
MarkerStripChars == {"1", "2", "3", ".", Bullet, "-", " "}
ParseKeyPoint(line) == Strip(LStripChars(line, MarkerStripChars))

\* the loop over ai_content.split("\n")
RECURSIVE CollectKeyPoints(_)
CollectKeyPoints(lines) ==
    IF lines = <<>> THEN <<>>
    ELSE LET line == Strip(Head(lines))
         IN  (IF IsKeyPointLine(line) THEN <<ParseKeyPoint(line)>> ELSE <<>>)
             \o CollectKeyPoints(Tail(lines))

\* the summary returned when the completion call succeeded with text `content`
AISummary(content) ==
    LET ai_content == Strip(content)
    IN  [summary    |-> ai_content,
         key_points |-> Take(CollectKeyPoints(Split(ai_content, "\n")),
                             AIKeyPointCount),
         type       |-> AIType]

\* variant: only errors of the completion call are caught
AIHandlerCatches_Narrow(kind) == kind \in {"api_error", "timeout"}
\* except Exception: every failure of the AI attempt is caught
AIHandlerCatches(kind) == TRUE

\* The outcomes of the AI attempt, given by the environment:
\*   import_failed  import openai raises
\*   api_error      ChatCompletion.create raises (network, authentication)
\*   timeout        ChatCompletion.create raises after the 20 s timeout
\*   malformed      the response has no choices[0].message["content"]
\*   ok             the response carries text `content`
AIFailures == {"import_failed", "api_error", "timeout", "malformed"}

\* generate_summary(transcript_text, video_info, openai_key), with the module
\* flag and the outcome `ai` of the AI attempt as further inputs.
\* raised: an exception leaves the function; warned: st.warning was shown.
generate_summary(transcript_text, info, key, flag, ai) ==
    LET base_summary == BaseSummary(transcript_text)
    IN  IF AIPathEnabled(flag, key)
        THEN IF ai.kind = "ok"
             THEN [raised |-> FALSE, warned |-> FALSE,
                   value |-> AISummary(ai.content)]
             ELSE IF AIHandlerCatches(ai.kind)
                  THEN [raised |-> FALSE, warned |-> TRUE,
                        value |-> base_summary]
                  ELSE [raised |-> TRUE, warned |-> FALSE,
                        value |-> base_summary]
        ELSE [raised |-> FALSE, warned |-> FALSE, value |-> base_summary]

-----------------------------------------------------------------------------
(* format_markdown *)

\* The report is kept as its sequence of lines, each [kind, label, text].
\* The upload-date line and the generation-time footer text are left out.
Line(kind, label, text) == [kind |-> kind, label |-> label, text |-> text]

\* f"{duration//60}<min>{duration%60}<sec>" if duration else <unknown>
DurationStr(duration) ==
    IF duration # 0
    THEN Digits(duration \div 60) \o <<"U5206">>
         \o Digits(duration % 60) \o <<"U79D2">>
    ELSE <<"U672A", "U77E5">>

\* for i, point in enumerate(summary['key_points'], 1): f"{i}. {point}"
KeyPointLines(key_points) ==
    [i \in 1..Len(key_points) |-> Line("point", Digits(i), key_points[i])]

\* variant: the seconds are rounded instead of truncated
TimeLabel_Rounded(start) ==
    Fmt02d(start \div 600) \o <<":">> \o Fmt02d(((start % 600) + 5) \div 10)
\* f"{int(seg['start']//60):02d}:{int(seg['start']%60):02d}", start in tenths
TimeLabel(start) ==
    Fmt02d(start \div 600) \o <<":">> \o Fmt02d((start % 600) \div 10)

\* transcript["segments"][:3]
TimelineSegments(segments) == Take(segments, TimelineCount)

\* the timeline block
TimelineLines(segments) ==
    IF segments # <<>>
    THEN <<Line("timeline", <<>>, <<>>)>> \o
         [i \in 1..Len(TimelineSegments(segments)) |->
             Line("time", TimeLabel(TimelineSegments(segments)[i].start),
                  Take(TimelineSegments(segments)[i].text, SegTextCut))]
    ELSE <<>>

format_markdown(sum, info, trans) ==
    <<Line("title", <<>>, info.title),
      Line("channel", <<>>, info.channel),
      Line("duration", <<>>, DurationStr(info.duration)),
      Line("type", <<>>, <<sum.type>>),
      Line("summary", <<>>, sum.summary)>>
    \o KeyPointLines(sum.key_points)
    \o TimelineLines(trans.segments)
    \o <<Line("footer", <<>>, <<>>)>>

-----------------------------------------------------------------------------
(* Inputs of a run *)

Letters == <<"a", "b", "c", "d", "e", "f", "g", "h",
             "i", "j", "k", "l", "m", "n", "o", "p">>

\* A transcript text of n sentences, the i-th being letter i, laid out as
\*   1: every sentence followed by a full stop;
\*   2: sentences wrapped in white space, joined by full stops, none trailing;
\*   3: two-word sentences, with blank fragments before and between them.
TranscriptText(n, layout) ==
    CASE layout = 1 ->
           Join([i \in 1..n |-> <<Letters[i], FullStop>>], <<>>)
      [] layout = 2 ->
           Join([i \in 1..n |-> <<" ", Letters[i], "\n">>], <<FullStop>>)
      [] OTHER ->
           <<" ", FullStop>> \o
           Join([i \in 1..n |->
                   <<Letters[i], " ", Letters[i], FullStop, " ", FullStop>>],
                <<>>)

\* start times of segments, in tenths of a second
StartTable == <<0, 599, 37255, 600, 7549, 12345>>
SegStart(j, timing) ==
    StartTable[((j - 1 + 3 * (timing - 1)) % Len(StartTable)) + 1]
\* the second segment's text is longer than the report's cut
SegText(j) == IF j = 2 THEN [i \in 1..(SegTextCut + 2) |-> "x"]
                       ELSE <<Letters[j]>>
SegmentList(m, timing) ==
    [j \in 1..m |-> [start |-> SegStart(j, timing), text |-> SegText(j)]]

SegmentLists ==
    {SegmentList(m, 1) : m \in 0..MaxSeg} \cup {SegmentList(TimelineCount, 2)}

\* what model.transcribe can return
Transcripts ==
    {[text |-> TranscriptText(n, layout), segments |-> segs] :
        n \in 0..MaxSent, layout \in 1..3, segs \in SegmentLists}

\* lines a completion text is made of
AILines ==
    << <<"1", ".", " ", "a", "b">>,
       <<" ", " ", "-", " ", "b", " ">>,
       <<"2", ".", "a">>,
       <<Bullet, "a", " ", "b">>,
       <<"a", "b">>,
       <<"1", ".", " ", "3", "a">>,
       <<>>,
       <<"3", ".", " ", "a", "-", "1">>,
       <<"4", ".", " ", "a">>,
       <<"1", "a">>,
       <<"-">> >>
\* the k lines from line s on, joined by newlines
AIContent(s, k) ==
    Join([i \in 1..k |-> AILines[((s + i - 2) % Len(AILines)) + 1]], <<"\n">>)
AIContents == {AIContent(s, k) : s \in 1..Len(AILines), k \in 0..MaxLines}
AIOutcomes ==
    {[kind |-> f, content |-> <<>>] : f \in AIFailures}
    \cup {[kind |-> "ok", content |-> c] : c \in AIContents}

HttpPrefix == <<"h", "t", "t", "p", ":", "/", "/">>
HttpsPrefix == <<"h", "t", "t", "p", "s", ":", "/", "/">>
URLs ==
    { <<>>,
      HttpPrefix \o <<"a">>,
      HttpsPrefix \o <<"a">>,
      <<"f", "t", "p", ":", "/", "/", "a">>,
      <<"h", "t", "t", "p", ":", "/", "a">>,
      <<"h", "t", "t", "p", "s", "/", "/", "a">>,
      <<" ">> \o HttpPrefix \o <<"a">>,
      <<"H", "T", "T", "P", ":", "/", "/", "a">> }
Keys == { <<>>, <<"k">> }
\* info.get("duration", 0) of the downloaded video, in seconds
VideoDuration == 2 * 60 + 5

-----------------------------------------------------------------------------
(* main *)

Init ==
    /\ ALLOW_AI_SUMMARY \in BOOLEAN
    /\ pc = "input"
    /\ start_btn = FALSE
    /\ video_url = <<>>
    /\ openai_key = <<>>
    /\ video_path = "unbound"
    /\ video_info = <<>>
    /\ temp_dir = "unbound"
    /\ audio_path = "unbound"
    /\ transcript = <<>>
    /\ summary = <<>>
    /\ md_content = <<>>
    /\ tempDirOnDisk = "none"
    /\ messages = <<>>
    /\ stages = <<>>
    /\ failed = "none"
    /\ aiCall = "none"
    /\ aiText = <<>>
    /\ offered = FALSE

\* the widgets of the page: the URL, the key (only asked for when
\* ALLOW_AI_SUMMARY) and the button
Render(url, key, btn) ==
    /\ pc = "input"
    /\ video_url' = url
    /\ openai_key' = IF ALLOW_AI_SUMMARY THEN key ELSE <<>>
    /\ start_btn' = btn
    /\ pc' = "check"
    /\ UNCHANGED <<aiText, ALLOW_AI_SUMMARY, video_path, video_info, temp_dir,
                   audio_path, transcript, summary, md_content, tempDirOnDisk,
                   messages, stages, failed, aiCall, offered>>

\* variant: video_url.startswith("http")
ValidScheme_Loose(url) == StartsWith(url, <<"h", "t", "t", "p">>)
\* video_url.startswith("http://") or video_url.startswith("https://")
ValidScheme(url) == StartsWith(url, HttpPrefix) \/ StartsWith(url, HttpsPrefix)

\* if start_btn and video_url: ... elif start_btn: ...
Validate ==
    /\ pc = "check"
    /\ IF start_btn /\ video_url # <<>>
       THEN IF ~ValidScheme(video_url)
            THEN /\ messages' = Append(messages, "error")
                 /\ failed' = "input"
                 /\ pc' = "returned"
            ELSE /\ pc' = "download"
                 /\ UNCHANGED <<messages, failed>>
       ELSE IF start_btn
            THEN /\ messages' = Append(messages, "error")
                 /\ failed' = "input"
                 /\ pc' = "returned"
            ELSE /\ pc' = "returned"
                 /\ UNCHANGED <<messages, failed>>
    /\ UNCHANGED <<aiText, ALLOW_AI_SUMMARY, start_btn, video_url, openai_key,
                   video_path, video_info, temp_dir, audio_path, transcript,
                   summary, md_content, tempDirOnDisk, stages, aiCall, offered>>

\* get_video succeeds: the directory exists and its handle is returned
DownloadOk ==
    /\ pc = "download"
    /\ stages' = Append(stages, "download")
    /\ tempDirOnDisk' = "exists"
    /\ video_path' = "path"
    /\ video_info' = << [title |-> <<"t">>, channel |-> <<"c">>,
                         duration |-> VideoDuration, url |-> video_url] >>
    /\ temp_dir' = "handle"
    /\ messages' = Append(messages, "success")
    /\ pc' = "extract"
    /\ UNCHANGED <<aiText, ALLOW_AI_SUMMARY, start_btn, video_url, openai_key,
                   audio_path, transcript, summary, md_content, failed, aiCall,
                   offered>>

\* What has become of the directory of line 18 by the time main returns,
\* when get_video returned None, None, None: no name holds the
\* TemporaryDirectory object any more, so nothing calls cleanup() on it, and
\* the directory is removed only by the object's finalizer, whenever the
\* interpreter collects the object: at once where the reference count drops
\* to zero on return, later where the caught exception's traceback still
\* holds get_video's frame.  Either can be the case when main returns.
DirAfterFailedDownload == {"removed", "exists"}

\* get_video fails: the download raised inside its try
DownloadFail ==
    /\ pc = "download"
    /\ stages' = Append(stages, "download")
    /\ tempDirOnDisk' \in DirAfterFailedDownload
    /\ video_path' = "None"
    /\ video_info' = <<>>
    /\ temp_dir' = "None"
    /\ messages' = messages \o <<"error", "info">>
    /\ failed' = "download"
    /\ pc' = "finally"
    /\ UNCHANGED <<aiText, ALLOW_AI_SUMMARY, start_btn, video_url, openai_key,
                   audio_path, transcript, summary, md_content, aiCall, offered>>

ExtractOk ==
    /\ pc = "extract"
    /\ stages' = Append(stages, "extract")
    /\ audio_path' = "path"
    /\ pc' = "transcribe"
    /\ UNCHANGED <<aiText, ALLOW_AI_SUMMARY, start_btn, video_url, openai_key,
                   video_path, video_info, temp_dir, transcript, summary,
                   md_content, tempDirOnDisk, messages, failed, aiCall, offered>>

\* variant: the return after a failed extraction is missing
AfterExtractFail_NoReturn == "transcribe"
\* where main goes when extract_audio returned None: if not audio_path: return
AfterExtractFail == "finally"

ExtractFail ==
    /\ pc = "extract"
    /\ stages' = Append(stages, "extract")
    /\ audio_path' = "None"
    /\ messages' = Append(messages, "error")
    /\ failed' = "extract"
    /\ pc' = AfterExtractFail
    /\ UNCHANGED <<aiText, ALLOW_AI_SUMMARY, start_btn, video_url, openai_key,
                   video_path, video_info, temp_dir, transcript, summary,
                   md_content, tempDirOnDisk, aiCall, offered>>

TranscribeOk(t) ==
    /\ pc = "transcribe"
    /\ stages' = Append(stages, "transcribe")
    /\ transcript' = <<t>>
    /\ messages' = Append(messages, "success")
    /\ pc' = "summarize"
    /\ UNCHANGED <<aiText, ALLOW_AI_SUMMARY, start_btn, video_url, openai_key,
                   video_path, video_info, temp_dir, audio_path, summary,
                   md_content, tempDirOnDisk, failed, aiCall, offered>>

\* audio_to_text raises (model load or model.transcribe)
TranscribeRaise ==
    /\ pc = "transcribe"
    /\ stages' = Append(stages, "transcribe")
    /\ failed' = "transcribe"
    /\ pc' = "except"
    /\ UNCHANGED <<aiText, ALLOW_AI_SUMMARY, start_btn, video_url, openai_key,
                   video_path, video_info, temp_dir, audio_path, transcript,
                   summary, md_content, tempDirOnDisk, messages, aiCall, offered>>

\* step 3: generate_summary, `ai` being the outcome of the AI attempt if made
Summarize(ai) ==
    /\ pc = "summarize"
    /\ LET r == generate_summary(transcript[1].text, video_info[1], openai_key,
                                 ALLOW_AI_SUMMARY, ai)
           attempted == AIPathEnabled(ALLOW_AI_SUMMARY, openai_key)
       IN  /\ stages' = Append(stages, "summarize")
           /\ aiCall' = IF attempted THEN ai.kind ELSE "none"
           /\ aiText' = IF attempted /\ ai.kind = "ok" THEN <<ai.content>>
                                                       ELSE <<>>
           /\ IF r.raised
              THEN /\ failed' = "summarize"
                   /\ pc' = "except"
                   /\ UNCHANGED <<summary, messages>>
              ELSE /\ summary' = <<r.value>>
                   /\ messages' = messages
                          \o (IF r.warned THEN <<"warning">> ELSE <<>>)
                          \o <<"success">>
                   /\ pc' = "format"
                   /\ UNCHANGED failed
    /\ UNCHANGED <<ALLOW_AI_SUMMARY, start_btn, video_url, openai_key,
                   video_path, video_info, temp_dir, audio_path, transcript,
                   md_content, tempDirOnDisk, offered>>

\* step 4: format_markdown, st.markdown, st.download_button
Display ==
    /\ pc = "format"
    /\ stages' = Append(stages, "format")
    /\ md_content' = <<format_markdown(summary[1], video_info[1], transcript[1])>>
    /\ offered' = TRUE
    /\ pc' = "finally"
    /\ UNCHANGED <<aiText, ALLOW_AI_SUMMARY, start_btn, video_url, openai_key,
                   video_path, video_info, temp_dir, audio_path, transcript,
                   summary, tempDirOnDisk, messages, failed, aiCall>>

\* a Streamlit call of the try block raises before the stage at pc is invoked
Raise ==
    /\ pc \in {"download", "extract", "summarize", "format"}
    /\ failed' = "shell"
    /\ pc' = "except"
    /\ UNCHANGED <<aiText, ALLOW_AI_SUMMARY, start_btn, video_url, openai_key,
                   video_path, video_info, temp_dir, audio_path, transcript,
                   summary, md_content, tempDirOnDisk, messages, stages, aiCall,
                   offered>>

\* except Exception as e: st.error(...)
Except ==
    /\ pc = "except"
    /\ messages' = Append(messages, "error")
    /\ pc' = "finally"
    /\ UNCHANGED <<aiText, ALLOW_AI_SUMMARY, start_btn, video_url, openai_key,
                   video_path, video_info, temp_dir, audio_path, transcript,
                   summary, md_content, tempDirOnDisk, stages, failed, aiCall,
                   offered>>

\* temp_dir.cleanup() of the finally block; on None or an unbound name it
\* raises, and the bare except swallows that
CleanedDir(handle, dir) == IF handle = "handle" THEN "removed" ELSE dir

Finally ==
    /\ pc = "finally"
    /\ tempDirOnDisk' = CleanedDir(temp_dir, tempDirOnDisk)
    /\ pc' = "returned"
    /\ UNCHANGED <<aiText, ALLOW_AI_SUMMARY, start_btn, video_url, openai_key,
                   video_path, video_info, temp_dir, audio_path, transcript,
                   summary, md_content, messages, stages, failed, aiCall,
                   offered>>

\* the next execution of the script: main's locals and the page are new
Rerun ==
    /\ pc = "returned"
    /\ pc' = "input"
    /\ start_btn' = FALSE
    /\ video_url' = <<>>
    /\ openai_key' = <<>>
    /\ video_path' = "unbound"
    /\ video_info' = <<>>
    /\ temp_dir' = "unbound"
    /\ audio_path' = "unbound"
    /\ transcript' = <<>>
    /\ summary' = <<>>
    /\ md_content' = <<>>
    /\ tempDirOnDisk' = "none"
    /\ messages' = <<>>
    /\ stages' = <<>>
    /\ failed' = "none"
    /\ aiCall' = "none"
    /\ aiText' = <<>>
    /\ offered' = FALSE
    /\ UNCHANGED ALLOW_AI_SUMMARY

Next ==
    \/ \E url \in URLs, key \in Keys, btn \in BOOLEAN : Render(url, key, btn)
    \/ Validate
    \/ DownloadOk
    \/ DownloadFail
    \/ ExtractOk
    \/ ExtractFail
    \/ \E t \in Transcripts : TranscribeOk(t)
    \/ TranscribeRaise
    \/ \E ai \in AIOutcomes : Summarize(ai)
    \/ Display
    \/ Raise
    \/ Except
    \/ Finally
    \/ Rerun

Spec == Init /\ [][Next]_vars

-----------------------------------------------------------------------------
(* Properties *)

\* generate_summary has been called in this run
SummaryCalled == Len(stages) >= 4
\* generate_summary has returned a summary
HasSummary == summary # <<>>
IsExtractive == HasSummary /\ summary[1].type = ExtractiveType
IsAI == HasSummary /\ summary[1].type = AIType
\* the sentence list S of the run's transcript
S == Sentences(transcript[1].text)
\* the completion call itself was made (the import succeeded)
CompletionCalled == aiCall \in {"api_error", "timeout", "malformed", "ok"}

\* C1: when the AI path is attempted and any step of it fails (import,
\* completion call, timeout, malformed response), generate_summary raises
\* nothing and returns exactly the summary, key points and label that the
\* extractive path alone (no key) gives for the same transcript.
C1_AIFailureFallsBack ==
    (SummaryCalled /\ aiCall \in AIFailures) =>
        /\ failed # "summarize"
        /\ HasSummary
        /\ summary[1].type = "extractive"
        /\ \A ai \in AIOutcomes :
              summary[1] = generate_summary(transcript[1].text, video_info[1],
                                            <<>>, ALLOW_AI_SUMMARY, ai).value

C1_Witness ==
    /\ pc = "format"
    /\ ALLOW_AI_SUMMARY /\ openai_key # <<>>
    /\ aiCall = "timeout"
    /\ Len(S) > 10

\* C2: whenever get_video has created the temporary directory, the directory
\* has been removed by the time main returns, on every exit path (success,
\* download failure, extraction failure, exception).
C2_TempDirRemoved ==
    pc = "returned" =>
        /\ tempDirOnDisk # "exists"
        /\ ("download" \in {stages[i] : i \in 1..Len(stages)}
               => tempDirOnDisk = "removed")

PipelineOrder == <<"download", "extract", "transcribe", "summarize", "format">>
StageFailures == {"download", "extract", "transcribe"}
Shown(kind) == \E i \in 1..Len(messages) : messages[i] = kind

\* C3: the stages run strictly in the order download, audio extraction,
\* transcription, summary, report; once download, extraction or transcription
\* has failed, no later stage runs in that run and nothing is offered for
\* download, and an error message has been shown when main returns.
C3_FailureAborts ==
    /\ Len(stages) <= Len(PipelineOrder)
    /\ stages = SubSeq(PipelineOrder, 1, Len(stages))
    /\ (failed = "download" => stages = <<"download">> /\ audio_path = "unbound")
    /\ (failed = "extract" => stages = <<"download", "extract">>)
    /\ (failed = "transcribe" => stages = <<"download", "extract", "transcribe">>)
    /\ (failed \in StageFailures =>
            /\ transcript = <<>> /\ summary = <<>> /\ md_content = <<>>
            /\ ~offered
            /\ pc \in {"except", "finally", "returned"}
            /\ (pc = "returned" => Shown("error")))

C3_Witness ==
    /\ pc = "returned"
    /\ failed = "extract"
    /\ Shown("error")

\* the URL starts with "http://" or "https://"
HasHttpScheme(url) ==
    \/ /\ Len(url) >= 7
       /\ <<url[1], url[2], url[3], url[4], url[5], url[6], url[7]>>
             = <<"h", "t", "t", "p", ":", "/", "/">>
    \/ /\ Len(url) >= 8
       /\ <<url[1], url[2], url[3], url[4], url[5], url[6], url[7], url[8]>>
             = <<"h", "t", "t", "p", "s", ":", "/", "/">>

\* C4: when the submitted URL does not start with "http://" or "https://",
\* the run ends at once with an error message: get_video is never invoked
\* (no stage runs, no temporary directory is created).
C4_InvalidUrlNoDownload ==
    (start_btn /\ ~HasHttpScheme(video_url)) =>
        /\ pc \in {"check", "returned"}
        /\ stages = <<>>
        /\ tempDirOnDisk = "none"
        /\ video_path = "unbound"
        /\ (pc = "returned" => messages = <<"error">>)

C4_Witness ==
    /\ pc = "returned"
    /\ start_btn
    /\ video_url = <<"f", "t", "p", ":", "/", "/", "a">>
    /\ messages = <<"error">>

\* the transcript has no non-empty sentence: only white space and full stops
BlankTranscript ==
    \A i \in 1..Len(transcript[1].text) :
        transcript[1].text[i] \in Whitespace \cup {FullStop}

\* C5 as stated: the Summary Engine always produces a Summary, and for an
\* empty transcript the extractive result has an empty body and an empty
\* key-point list.
C5_EmptyBodyAsStated ==
    /\ (SummaryCalled => HasSummary /\ failed # "summarize")
    /\ (IsExtractive /\ BlankTranscript =>
            summary[1].summary = <<>> /\ summary[1].key_points = <<>>)

\* C5 amended: the Summary Engine always produces a Summary, and for an empty
\* transcript the extractive result has a body that is the single full stop
\* and an empty key-point list.
C5_EmptyTranscript ==
    /\ (SummaryCalled => HasSummary /\ failed # "summarize")
    /\ (IsExtractive /\ BlankTranscript =>
            summary[1].summary = <<FullStop>> /\ summary[1].key_points = <<>>)

C5_Witness ==
    /\ pc = "format"
    /\ IsExtractive
    /\ BlankTranscript
    /\ transcript[1].text # <<>>

\* C6: for a transcript of at most 10 sentences, the extractive body is all
\* sentences in order joined with the full stop plus a trailing full stop, and
\* the key points are the first min(5, |S|) sentences.
C6_ShortTranscript ==
    (IsExtractive /\ Len(S) <= 10) =>
        /\ summary[1].summary = Join(S, <<FullStop>>) \o <<FullStop>>
        /\ Len(summary[1].key_points) = (IF Len(S) < 5 THEN Len(S) ELSE 5)
        /\ \A i \in 1..Len(summary[1].key_points) :
              summary[1].key_points[i] = S[i]

C6_Witness ==
    /\ pc = "format"
    /\ IsExtractive
    /\ Len(S) = 10

\* C7: for a transcript of more than 10 sentences, the extractive body is the
\* first 5 sentences followed by the last 3 (8 sentences at distinct
\* positions) joined with the full stop plus a trailing full stop, and the key
\* points are exactly the first 5 sentences.
C7_LongTranscript ==
    (IsExtractive /\ Len(S) > 10) =>
        LET n == Len(S)
            picked == <<1, 2, 3, 4, 5, n - 2, n - 1, n>>
        IN  /\ Cardinality({picked[i] : i \in 1..8}) = 8
            /\ summary[1].summary =
                  Join([i \in 1..8 |-> S[picked[i]]], <<FullStop>>)
                  \o <<FullStop>>
            /\ summary[1].key_points = <<S[1], S[2], S[3], S[4], S[5]>>

C7_Witness ==
    /\ pc = "format"
    /\ IsExtractive
    /\ Len(S) = 12

\* C8: the completion call is made only when the API key is non-empty and
\* ALLOW_AI_SUMMARY is on; when either is false no call is made and the
\* extractive result with the extractive label is returned; a Summary with
\* the AI label is returned only after a completion call that succeeded.
C8_AIOptIn ==
    /\ (aiCall # "none" => ALLOW_AI_SUMMARY /\ openai_key # <<>>)
    /\ (HasSummary /\ ~(ALLOW_AI_SUMMARY /\ openai_key # <<>>) =>
            /\ ~CompletionCalled
            /\ summary[1].type = "extractive"
            /\ summary[1] = BaseSummary(transcript[1].text))
    /\ (IsAI => aiCall = "ok" /\ aiText # <<>>)
    /\ (pc = "summarize" =>
            \A key \in Keys, flag \in BOOLEAN, ai \in AIOutcomes :
                ~(flag /\ key # <<>>) =>
                    generate_summary(transcript[1].text, video_info[1], key,
                                     flag, ai)
                      = [raised |-> FALSE, warned |-> FALSE,
                         value |-> BaseSummary(transcript[1].text)])

C8_Witness ==
    /\ pc = "format"
    /\ ALLOW_AI_SUMMARY
    /\ openai_key = <<>>
    /\ aiCall = "none"
    /\ IsExtractive

\* the marker a trimmed line starts with, if any
MarkerOf(line) == {m \in KeyPointMarkers : StartsWith(line, m)}
\* a line with only its marker and the white space after it removed
WithoutMarker(line) ==
    LET m == CHOOSE x \in MarkerOf(line) : TRUE
    IN  LStripChars(SubSeq(line, Len(m) + 1, Len(line)), Whitespace)
\* the key points the claim describes, for the lines of a text
RECURSIVE MarkedLines(_)
MarkedLines(lines) ==
    IF lines = <<>> THEN <<>>
    ELSE LET line == Strip(Head(lines))
         IN  (IF MarkerOf(line) # {} THEN <<WithoutMarker(line)>> ELSE <<>>)
             \o MarkedLines(Tail(lines))

\* C9: on the AI path a line is a key point iff, trimmed, it starts with one
\* of the markers; each key point is that line with only the marker and the
\* separators after it removed, the rest of the line intact; key points keep
\* their order and are cut to the first 3; the body is the returned text
\* (outer white space aside).
C9_KeyPointsKeepText ==
    IsAI =>
        /\ summary[1].summary = Strip(aiText[1])
        /\ summary[1].key_points =
              SubSeq(MarkedLines(Split(Strip(aiText[1]), "\n")), 1,
                     Min(3, Len(MarkedLines(Split(Strip(aiText[1]), "\n")))))

\* lines of one kind of the report, in order
TimeKind(l) == l.kind = "time"
TimelineKind(l) == l.kind = "timeline"
PointKind(l) == l.kind = "point"
\* two decimal digits of n < 100
TwoDigits(n) == <<DigitChars[(n \div 10) + 1], DigitChars[(n % 10) + 1]>>
\* MM:SS of a start in tenths of a second: MM = floor(start / 60),
\* SS = floor(start mod 60)
ExpectedLabel(start) ==
    LET mm == CHOOSE m \in 0..99 : 600 * m <= start /\ start < 600 * (m + 1)
        ss == CHOOSE x \in 0..59 :
                  600 * mm + 10 * x <= start /\ start < 600 * mm + 10 * (x + 1)
    IN  TwoDigits(mm) \o <<":">> \o TwoDigits(ss)

\* C10: the report has the timeline block iff the transcript has segments;
\* the block then has exactly min(3, number of segments) entries, the first
\* segments in order, each labelled MM:SS with MM = floor(start/60) and
\* SS = floor(start mod 60); the key-points block lists every key point once,
\* numbered 1..N in order.
C10_ReportBlocks ==
    md_content # <<>> =>
        LET md == md_content[1]
            segs == transcript[1].segments
            kps == summary[1].key_points
            times == SelectSeq(md, TimeKind)
            points == SelectSeq(md, PointKind)
        IN  /\ (Len(SelectSeq(md, TimelineKind)) = 1) <=> (segs # <<>>)
            /\ Len(SelectSeq(md, TimelineKind)) <= 1
            /\ Len(times) = (IF Len(segs) < 3 THEN Len(segs) ELSE 3)
            /\ \A i \in 1..Len(times) :
                  /\ times[i].label = ExpectedLabel(segs[i].start)
                  /\ times[i].text = SubSeq(segs[i].text, 1,
                                            Min(50, Len(segs[i].text)))
            /\ Len(points) = Len(kps)
            /\ \A i \in 1..Len(points) :
                  /\ points[i].text = kps[i]
                  /\ points[i].label = <<DigitChars[i + 1]>>

C10_Witness ==
    /\ md_content # <<>>
    /\ Len(transcript[1].segments) = 4
    /\ Len(summary[1].key_points) = 5

=============================================================================
